---- MODULE Spec2Model ----
(***************************************************************************)
(* Model of the model-selection and forecast-generation engine:            *)
(*   app/cross_validator.py  CrossValidator                                *)
(*   app/forecaster.py       Forecaster                                    *)
(*   app/data_types.py       ModelBank, METRIC_BANK                        *)
(*                                                                         *)
(* Model instances are objects on a heap: an object id is the instance's   *)
(* identity, the heap maps it to the instance's state.                     *)
(*                                                                         *)
(* Time is counted in periods of the series' frequency: timestamp t is the *)
(* t-th point of the regular grid.  A history X maps each entity it holds  *)
(* to the timestamp of its last observation; the entity's observations are *)
(* the timestamps 1..X[e].  Tables (DataFrames) are sets of rows; a        *)
(* DataFrame that does not exist (None) is the record NoTable.             *)
(***************************************************************************)
EXTENDS Integers, Sequences, FiniteSets, TLC

VARIABLES
    cv,        \* the CrossValidator instance (self)
    cvOut,     \* outcome of the last CrossValidator call
    cvCalls,   \* the model fits done by the last sf.cross_validation call
    cvLog,     \* history: which CrossValidator calls have returned so far
    fc,        \* the Forecaster instance (self), or NoForecaster
    fcOut,     \* outcome of the last Forecaster call
    fcCalls,   \* the _apply_forecast calls of the last Forecaster.predict call
    fcLog,     \* history: the Forecaster calls made so far
    cvTable,   \* the caller's decision table object given to Forecaster()
    bankModels, \* ModelBank.models: the dict from identifier to stored instance
    heap,      \* the live model instances: object id -> the object's state
    refs,      \* the instances ModelBank.get has returned to the caller, in call order
    mbOut,     \* outcome of the last ModelBank.get call or instance fit
    par,       \* one input of transform and what validators of parallelism
               \* degree 1 and N returned for it
    caller,    \* the table a caller of the CrossValidator holds and may modify
    mt,        \* a metric of METRIC_BANK applied to a pair of sequences
    imp        \* an imputer of app/imputers.py, its input and its output

vars == <<cv, cvOut, cvCalls, cvLog, fc, fcOut, fcCalls, fcLog, cvTable,
          bankModels, heap, refs, mbOut, par, caller, mt, imp>>

auxVars == <<caller, mt, imp>>

cvVars == <<cv, cvOut, cvCalls, cvLog>>
fcVars == <<fc, fcOut, fcCalls, fcLog, cvTable>>
mbVars == <<bankModels, heap, refs, mbOut>>

----------------------------------------------------------------------------
(* Bounds of the model *)

\* Timestamp of the last grid point any history reaches.
MaxT == 6
Entities == {1, 2}

----------------------------------------------------------------------------
(* app/constants.py, app/data_types.py *)

MODEL_AUTO_ARIMA_365 == "AutoARIMA"
MODEL_AUTO_ETS_365 == "AutoETS"
MODEL_HISTORIC_AVERAGE == "HistoricAverage"

MAPE == "MAPE"
MAE == "MAE"
RMSE == "RMSE"

\* ModelBank.models: the keys, in the dict's insertion (enumeration) order.
ModelBankKeys == <<MODEL_AUTO_ARIMA_365, MODEL_AUTO_ETS_365, MODEL_HISTORIC_AVERAGE>>

Range(s) == {s[i] : i \in DOMAIN s}

\* METRIC_BANK: the keys of the dict.
METRIC_BANK == {MAPE, MAE, RMSE}

\* The value dict.get returns for a missing key.
None == "None"

\* METRIC_BANK.get(metric): dict.get, which returns None for a missing key.
MetricBankGet(metric) == IF metric \in METRIC_BANK THEN metric ELSE None

----------------------------------------------------------------------------
(* ModelBank *)

\* The reference that is None.
NoneRef == 0

\* A model instance as its constructor leaves it: not fit on any data.
NewModel(cls) == [cls |-> cls, fitted |-> None]

\* The class attribute ModelBank.models once the class body has run: every
\* key is bound to its own instance, object o holding the o-th key's model.
RegistryModels ==
    [name \in Range(ModelBankKeys) |->
        CHOOSE o \in DOMAIN ModelBankKeys : ModelBankKeys[o] = name]
RegistryHeap == [o \in DOMAIN ModelBankKeys |-> NewModel(ModelBankKeys[o])]

\* dict.get(key): the value bound to the key, None for a missing key.
DictGet(d, key) == IF key \in DOMAIN d THEN d[key] ELSE NoneRef

\* The id of an object that is not live.
NewId(h) == CHOOSE o \in 1..(Cardinality(DOMAIN h) + 1) :
                /\ o \notin DOMAIN h
                /\ \A n \in 1..(o - 1) : n \in DOMAIN h

\* Mutant of DeepCopy: the object itself is handed out, nothing is copied.
DeepCopy_Alias(h, o) == [heap |-> h, ref |-> o]

\* copy.deepcopy(o): a new object whose state equals that of o; None is
\* copied to None.
DeepCopy(h, o) ==
    IF o = NoneRef
    THEN [heap |-> h, ref |-> NoneRef]
    ELSE [heap |-> h @@ (NewId(h) :> h[o]), ref |-> NewId(h)]

\* Mutant of ModelBankGetRaises: the membership test is missing.
ModelBankGetRaises_Never(model_name) == FALSE

\* ModelBank.get(model_name) raises ValueError when the name is no key.
ModelBankGetRaises(model_name) == model_name \notin DOMAIN bankModels

\* [ModelBank().get(name) for name in names], every name being a key: the
\* heap after the calls and the references they returned, in order.
RECURSIVE GetAll(_, _)
GetAll(h, names) ==
    IF names = <<>>
    THEN [heap |-> h, refs |-> <<>>]
    ELSE LET first == DeepCopy(h, DictGet(bankModels, Head(names)))
             rest == GetAll(first.heap, Tail(names))
         IN [heap |-> rest.heap, refs |-> <<first.ref>> \o rest.refs]

\* The heap once the objects in dead are no longer referenced.
Release(h, dead) == [o \in (DOMAIN h) \ dead |-> h[o]]

\* Outcome of a ModelBank.get call or of a fit of a returned instance: the
\* exception raised ("none" when it returned), the identifier asked for
\* and the reference returned or fit.
MbOutcome(op, raised, model_name, ref) ==
    [op |-> op, raised |-> raised, model_name |-> model_name, ref |-> ref]

\* No ModelBank call made yet.
NoMbOut == MbOutcome("none", "none", None, NoneRef)

\* No comparison of parallelism degrees under way.
NoPar == [exists |-> FALSE]

----------------------------------------------------------------------------
(* Tables *)

NoTable == [isNone |-> TRUE, rows |-> {}]
Table(rows) == [isNone |-> FALSE, rows |-> rows]

\* Outcome of a call: the exception it raised ("none" when it returned) and
\* the table it returned (NoTable when it returned no table).
Outcome(op, raised, value) == [op |-> op, raised |-> raised, value |-> value]

\* The caller holds no table.
NoCaller == [holds |-> "none", table |-> NoTable, shared |-> FALSE, op |-> "none"]

\* No metric applied.
NoMetricRun == [exists |-> FALSE]

\* No imputer under way.
NoImputer == [exists |-> FALSE]

----------------------------------------------------------------------------
(* Inputs of the CrossValidator constructor and of its calls *)

\* An identifier that is no key of ModelBank.models.
UnknownModel == "Prophet"
\* An identifier that is no key of METRIC_BANK.
UnknownMetric == "SMAPE"

\* The identifiers a caller lists: two registered ones and an unknown one.
ModelInputs == {MODEL_AUTO_ARIMA_365, MODEL_HISTORIC_AVERAGE, UnknownModel}

\* Candidate model lists: one or two different identifiers, in any order.
ModelLists ==
    {<<m>> : m \in ModelInputs}
        \cup {<<m, n>> : <<m, n>> \in {p \in ModelInputs \X ModelInputs : p[1] # p[2]}}

MetricInputs == {MAE, UnknownMetric}

\* "D" is a frequency StatsForecast and pd.Timedelta both accept; "MS"
\* (month start) is a StatsForecast frequency that pd.Timedelta rejects as
\* a unit.
FreqInputs == {"D", "MS"}

HorizonInputs == {1, 2}
SeasonInputs == {1, 3}
FoldInputs == {1, 2}

\* A history no longer than the shortest test window.
ShortT == 1

\* Histories: each entity e of a non-empty set of entities is observed at
\* the timestamps 1..X[e].  Entity 1 alone with a short or a full history,
\* or both entities, entity 2 ending with entity 1 or one period earlier.
Histories ==
    [{1} -> {ShortT, MaxT}]
        \cup {[e \in Entities |-> IF e = 1 THEN MaxT ELSE end] : end \in {MaxT - 1, MaxT}}

\* The values an error takes.
ErrorValues == {0, 1}

\* The error each candidate model (by position in self.models) reaches on
\* an entity's windows: the forecasting models are opaque, so any value is
\* possible.
ErrorOracles(X, n) == [(DOMAIN X) \X (1..n) -> ErrorValues]

----------------------------------------------------------------------------
(* CrossValidator.__init__ *)

\* self.sf: None, or the StatsForecast object holding the model instances.
NoSf == [isNone |-> TRUE, models |-> <<>>]
StatsForecast(model_instances) == [isNone |-> FALSE, models |-> model_instances]

CrossValidatorInit(models, freq, forecast_horizon, season_length, cv_folds, metric) ==
    [models |-> models,
     freq |-> freq,
     forecast_horizon |-> forecast_horizon,
     season_length |-> season_length,
     cv_folds |-> cv_folds,
     metric |-> metric,
     n_jobs |-> 1,
     sf |-> NoSf,
     metric_callable |-> None,
     is_fitted |-> FALSE,
     error_df |-> NoTable]

----------------------------------------------------------------------------
(* CrossValidator.fit *)

\* [ModelBank().get(model_name) for model_name in self.models] raises when
\* one of the names is not registered.
FitRaises(self) == \E i \in DOMAIN self.models : ModelBankGetRaises(self.models[i])

\* Mutant of Fitted: the fit forgets to set the flag.
Fitted_NoFlag(self, model_instances) ==
    [self EXCEPT !.metric_callable = MetricBankGet(self.metric),
                 !.sf = StatsForecast(model_instances)]

\* self after a fit that returns; model_instances are the references the
\* ModelBank returned for self.models.
Fitted(self, model_instances) ==
    [self EXCEPT !.metric_callable = MetricBankGet(self.metric),
                 !.sf = StatsForecast(model_instances),
                 !.is_fitted = TRUE]

\* The history X given to fit is not read.  The instances of an earlier
\* fit are live while the new ones are made and are released when self.sf
\* is bound to the new StatsForecast object.
CvFit ==
    IF FitRaises(cv)
    THEN /\ cvOut' = Outcome("fit", "ValueError", NoTable)
         /\ UNCHANGED <<cv, cvCalls, cvLog, heap>>
    ELSE LET got == GetAll(heap, cv.models)
         IN /\ cv' = Fitted(cv, got.refs)
            /\ heap' = Release(got.heap, Range(cv.sf.models))
            /\ cvOut' = Outcome("fit", "none", NoTable)
            /\ cvLog' = [cvLog EXCEPT !.fitted = TRUE]
            /\ UNCHANGED cvCalls

----------------------------------------------------------------------------
(* StatsForecast.cross_validation, as CrossValidator.transform calls it:   *)
(* df=X, h, step_size, n_windows given; test_size, input_size and refit    *)
(* left at their defaults (expanding window, refit in every window).       *)

\* Mutant of StepSize: the quotient is rounded up.
StepSize_Ceiling(self) == (self.season_length + self.cv_folds - 1) \div self.cv_folds

\* step_size=self.season_length // self.cv_folds
StepSize(self) == self.season_length \div self.cv_folds

\* The observations the backtest withholds at the end of every series.
TestSize(h, step_size, n_windows) == h + step_size * (n_windows - 1)

\* The backtest raises when the step is 0 or when a series is not longer
\* than the withheld part.
BacktestRaises(X, h, step_size, n_windows) ==
    \/ step_size = 0
    \/ \E e \in DOMAIN X : X[e] <= TestSize(h, step_size, n_windows)

\* The cutoff of window i (1..n_windows) of entity e: the windows step
\* backward from the end of the entity's history by multiples of step_size.
Cutoff(X, e, h, step_size, n_windows, i) ==
    X[e] - TestSize(h, step_size, n_windows) + (i - 1) * step_size

\* Mutant of TrainTimes: the first withheld observation is fit on as well.
TrainTimes_Leak(X, e, cutoff) == {t \in 1..X[e] : t <= cutoff + 1}

\* The timestamps of entity e a model is fit on in a window with this cutoff.
TrainTimes(X, e, cutoff) == {t \in 1..X[e] : t <= cutoff}

\* The timestamps of entity e a model is scored on in that window.
TestTimes(X, e, cutoff, h) == {t \in 1..X[e] : cutoff < t /\ t <= cutoff + h}

\* One fit/predict cycle per (entity, window, candidate model), each done
\* with the instance of that model the StatsForecast object holds.
BacktestFits(X, models, h, step_size, n_windows) ==
    {[unique_id |-> e,
      cutoff |-> Cutoff(X, e, h, step_size, n_windows, i),
      model |-> heap[models[j]].cls,
      instance |-> models[j],
      last |-> X[e],
      train |-> TrainTimes(X, e, Cutoff(X, e, h, step_size, n_windows, i)),
      test |-> TestTimes(X, e, Cutoff(X, e, h, step_size, n_windows, i), h)] :
        <<e, i, j>> \in (DOMAIN X) \X (1..n_windows) \X (DOMAIN models)}

\* Mutant of CvGroups: the rows are grouped by unique_id alone and keyed by
\* the entity's last cutoff.
CvGroups_PerEntity(X, h, step_size, n_windows) ==
    {<<e, Cutoff(X, e, h, step_size, n_windows, n_windows)>> : e \in DOMAIN X}

\* The (unique_id, cutoff) groups of cv_df.
CvGroups(X, h, step_size, n_windows) ==
    {<<e, Cutoff(X, e, h, step_size, n_windows, i)>> :
        <<e, i>> \in (DOMAIN X) \X (1..n_windows)}

----------------------------------------------------------------------------
(* CrossValidator._determine_best_model *)

\* Column labels are token sequences: f"{metric}_{model}".
ColumnName(metric, model) == <<metric, "_", model>>

\* DataFrame.filter(like=pat) keeps the columns whose label contains pat.
Contains(label, pat) == \E i \in DOMAIN label : label[i] = pat

\* str.replace(pat, ""): every occurrence of the token sequence pat removed.
RECURSIVE StrReplace(_, _)
StrReplace(label, pat) ==
    IF Len(label) < Len(pat)
    THEN label
    ELSE IF SubSeq(label, 1, Len(pat)) = pat
         THEN StrReplace(SubSeq(label, Len(pat) + 1, Len(label)), pat)
         ELSE <<Head(label)>> \o StrReplace(Tail(label), pat)

\* The string a label of one token stands for.
Text(label) == IF Len(label) = 1 THEN label[1] ELSE "?"

\* _calculate_metrics: one column per model of self.models, in list order.
CalculateMetrics(self, e, err) ==
    [j \in DOMAIN self.models |->
        [label |-> ColumnName(self.metric, self.models[j]), value |-> err[e, j]]]

\* All columns of a row of cv_df_results after reset_index().
Columns(e, c, metrics) ==
    <<[label |-> <<"unique_id">>, value |-> e], [label |-> <<"cutoff">>, value |-> c]>>
        \o metrics

FilterLike(cols, pat) == SelectSeq(cols, LAMBDA col : Contains(col.label, pat))

\* Mutant of IdxMin: the first column, whatever its value.
IdxMin_FirstColumn(cols) == cols[1].label

\* Mutant of IdxMin: the last column holding the row's minimum.
IdxMin_LastMinimum(cols) ==
    LET i == CHOOSE k \in DOMAIN cols :
                 /\ \A n \in DOMAIN cols : cols[k].value <= cols[n].value
                 /\ \A n \in (k + 1)..Len(cols) : cols[n].value > cols[k].value
    IN cols[i].label

\* idxmin(axis=1): the label of the first column holding the row's minimum.
IdxMin(cols) ==
    LET i == CHOOSE k \in DOMAIN cols :
                 /\ \A n \in DOMAIN cols : cols[k].value <= cols[n].value
                 /\ \A n \in 1..(k - 1) : cols[n].value > cols[k].value
    IN cols[i].label

\* The best_model cell of a row.
BestModel(self, e, c, metrics) ==
    Text(StrReplace(IdxMin(FilterLike(Columns(e, c, metrics), self.metric)),
                    <<self.metric, "_">>))

\* cv_df_results with the best_model column: what self._error_df is set to.
ErrorRows(self, groups, err) ==
    {[unique_id |-> g[1],
      cutoff |-> g[2],
      metrics |-> CalculateMetrics(self, g[1], err),
      best_model |-> BestModel(self, g[1], g[2], CalculateMetrics(self, g[1], err))] :
        g \in groups}

\* pd.Timedelta(self.forecast_horizon, unit=self.freq) raises ValueError
\* unless the frequency string is one of the units a Timedelta accepts.
TimedeltaUnits == {"W", "D", "h", "min", "s", "ms", "us", "ns"}
TimedeltaRaises(freq) == freq \notin TimedeltaUnits

\* Mutant of StartDate: the cutoff is not shifted.
StartDate_Unshifted(cutoff, forecast_horizon) == cutoff

\* cutoff + pd.Timedelta(forecast_horizon, unit=freq), in periods.
StartDate(cutoff, forecast_horizon) == cutoff + forecast_horizon

\* The rows of cv_df_results once its cutoff column has been shifted in place.
ShiftedRows(self, rows) ==
    {[r EXCEPT !.cutoff = StartDate(r.cutoff, self.forecast_horizon)] : r \in rows}

\* Mutant of StoredErrorTable: self._error_df is cv_df_results itself and
\* follows what is done to it afterwards.
StoredErrorTable_Shared(rows, later) == Table(later)

\* self._error_df = cv_df_results.copy(): the stored frame holds the rows
\* cv_df_results has at that point, whatever cv_df_results becomes later.
StoredErrorTable(rows, later) == Table(rows)

\* Mutant of DecisionRows: only the latest window of every entity is kept.
DecisionRows_LatestPerEntity(self, rows) ==
    {[unique_id |-> r.unique_id,
      start_date |-> StartDate(r.cutoff, self.forecast_horizon),
      best_model |-> r.best_model] :
        r \in {q \in rows : \A p \in rows : p.unique_id = q.unique_id => p.cutoff <= q.cutoff}}

\* The returned table: unique_id, start_date, best_model.
DecisionRows(self, rows) ==
    {[unique_id |-> r.unique_id,
      start_date |-> StartDate(r.cutoff, self.forecast_horizon),
      best_model |-> r.best_model] : r \in rows}

----------------------------------------------------------------------------
(* CrossValidator.transform *)

\* transform(X)
CvTransformOn(X) ==
    LET h == cv.forecast_horizon
        s == StepSize(cv)
        k == cv.cv_folds
    IN
    IF ~cv.is_fitted
    THEN /\ cvOut' = Outcome("transform", "NotFitted", NoTable)
         /\ UNCHANGED <<cv, cvCalls, cvLog>>
    ELSE IF BacktestRaises(X, h, s, k)
    THEN /\ cvOut' = Outcome("transform", "Backtest", NoTable)
         /\ cvCalls' = {}
         /\ UNCHANGED <<cv, cvLog>>
    ELSE IF cv.metric_callable = None
    THEN /\ cvOut' = Outcome("transform", "TypeError", NoTable)
         /\ cvCalls' = BacktestFits(X, cv.sf.models, h, s, k)
         /\ UNCHANGED <<cv, cvLog>>
    ELSE \E err \in ErrorOracles(X, Len(cv.models)) :
        LET rows == ErrorRows(cv, CvGroups(X, h, s, k), err)
        IN
        IF TimedeltaRaises(cv.freq)
        THEN /\ cv' = [cv EXCEPT !.error_df = StoredErrorTable(rows, rows)]
             /\ cvOut' = Outcome("transform", "TimedeltaValueError", NoTable)
             /\ cvCalls' = BacktestFits(X, cv.sf.models, h, s, k)
             /\ UNCHANGED cvLog
        ELSE /\ cv' = [cv EXCEPT !.error_df = StoredErrorTable(rows, ShiftedRows(cv, rows))]
             /\ cvOut' = Outcome("transform", "none", Table(DecisionRows(cv, rows)))
             /\ cvCalls' = BacktestFits(X, cv.sf.models, h, s, k)
             /\ cvLog' = [cvLog EXCEPT !.transformed = TRUE]

CvTransform == \E X \in Histories : CvTransformOn(X)

\* The last CrossValidator call was a transform that returned its table.
TransformReturned == cvOut.op = "transform" /\ cvOut.raised = "none"

----------------------------------------------------------------------------
(* CrossValidator.error_df *)

CvErrorDf ==
    IF cv.error_df.isNone
    THEN /\ cvOut' = Outcome("error_df", "NotTransformed", NoTable)
         /\ UNCHANGED <<cv, cvCalls, cvLog>>
    ELSE /\ cvOut' = Outcome("error_df", "none", cv.error_df)
         /\ UNCHANGED <<cv, cvCalls, cvLog>>

----------------------------------------------------------------------------
(* The CrossValidator's specification *)

NoForecaster ==
    [exists |-> FALSE, cv_results |-> NoTable, forecast_horizon |-> 0,
     level |-> <<>>, is_fitted |-> FALSE]

\* No Forecaster call made yet.
NoFcLog == [initLevel |-> <<>>, fitCalled |-> FALSE, fitMax |-> 0]

CvInit ==
    /\ \E models \in ModelLists, freq \in FreqInputs, h \in HorizonInputs,
          L \in SeasonInputs, k \in FoldInputs, metric \in MetricInputs :
            cv = CrossValidatorInit(models, freq, h, L, k, metric)
    /\ cvOut = Outcome("init", "none", NoTable)
    /\ cvCalls = {}
    /\ cvLog = [fitted |-> FALSE, transformed |-> FALSE]
    /\ fc = NoForecaster
    /\ fcOut = Outcome("none", "none", NoTable)
    /\ fcCalls = {}
    /\ fcLog = NoFcLog
    /\ cvTable = NoTable
    /\ bankModels = RegistryModels
    /\ heap = RegistryHeap
    /\ refs = <<>>
    /\ mbOut = NoMbOut
    /\ par = NoPar
    /\ caller = NoCaller
    /\ mt = NoMetricRun
    /\ imp = NoImputer

CvNext ==
    \/ CvFit /\ UNCHANGED <<fcVars, bankModels, refs, mbOut, par, auxVars>>
    \/ CvTransform /\ UNCHANGED <<fcVars, mbVars, par, auxVars>>
    \/ CvErrorDf /\ UNCHANGED <<fcVars, mbVars, par, auxVars>>

Spec == CvInit /\ [][CvNext]_vars

----------------------------------------------------------------------------
(* Inputs of the Forecaster constructor and of its calls *)

\* Lists of confidence levels: none, one, two.
LevelInputs == {<<>>, <<68>>, <<68, 95>>}

StartInputs == {2, 4, MaxT}

DecisionRowInputs ==
    {[unique_id |-> e, start_date |-> t, best_model |-> m] :
        <<e, t, m>> \in Entities \X StartInputs \X {MODEL_AUTO_ARIMA_365, MODEL_HISTORIC_AVERAGE}}

\* A decision table holds at most MaxRows rows.
MaxRows == 3

\* One decision per (unique_id, start_date), as the CrossValidator emits them.
KeyUnique(rows) ==
    \A r, q \in rows :
        (r.unique_id = q.unique_id /\ r.start_date = q.start_date) => r = q

DecisionTables ==
    {rows \in SUBSET DecisionRowInputs : Cardinality(rows) <= MaxRows /\ KeyUnique(rows)}

\* Histories given to fit and predict: a non-empty set of entities, each
\* observed at the timestamps 1..X[e].
FcHistoryEnds == {1, 4, MaxT}
FcHistories == UNION {[S -> FcHistoryEnds] : S \in (SUBSET Entities) \ {{}}}

----------------------------------------------------------------------------
(* Forecaster.__init__ *)

\* Mutant of ForecasterInitRaises: the check for an empty list is missing.
ForecasterInitRaises_NoEmptyCheck(level) == Len(level) > 1

ForecasterInitRaises(level) == Len(level) > 1 \/ Len(level) = 0

\* Mutant of ForecasterInit: the instance is born fitted.
ForecasterInit_Fitted(cv_results, forecast_horizon, level) ==
    [exists |-> TRUE,
     cv_results |-> cv_results,
     forecast_horizon |-> forecast_horizon,
     level |-> level,
     is_fitted |-> TRUE]

\* self.cv_results = cv_results binds the caller's table; nothing is copied.
ForecasterInit(cv_results, forecast_horizon, level) ==
    [exists |-> TRUE,
     cv_results |-> cv_results,
     forecast_horizon |-> forecast_horizon,
     level |-> level,
     is_fitted |-> FALSE]

\* Forecaster(cv_results, forecast_horizon=..., level=...)
FcConstructWith(cv_results, forecast_horizon, level) ==
    /\ ~fc.exists
    /\ IF ForecasterInitRaises(level)
       THEN /\ fcOut' = Outcome("init", "NotImplementedError", NoTable)
            /\ fcLog' = [fcLog EXCEPT !.initLevel = level]
            /\ UNCHANGED <<fc, fcCalls>>
       ELSE /\ fc' = ForecasterInit(cv_results, forecast_horizon, level)
            /\ fcOut' = Outcome("init", "none", NoTable)
            /\ fcLog' = [fcLog EXCEPT !.initLevel = level]
            /\ UNCHANGED fcCalls

\* The caller builds the Forecaster on the decision table it holds.
FcConstruct ==
    \E level \in LevelInputs, h \in HorizonInputs :
        FcConstructWith(cvTable, h, level) /\ UNCHANGED cvTable

----------------------------------------------------------------------------
(* Forecaster.fit *)

SetMax(S) == CHOOSE x \in S : \A y \in S : y <= x

\* X[constants.TIMESTAMP_COLUMN].max()
MaxTimestamp(X) == SetMax({X[e] : e \in DOMAIN X})

\* Mutant of QueryStartLE: the filter on the history's last timestamp is lost.
QueryStartLE_All(rows, ts) == rows

\* DataFrame.query(f"`start_date` <= '{ts}'"): the timestamp is written into
\* the expression and parsed back without loss.
QueryStartLE(rows, ts) == {r \in rows : r.start_date <= ts}

\* DataFrame.query(f"`start_date` == '{cv_results.start_date.max()}'"); the
\* maximum of an empty column is NaT, which equals no start_date.
QueryStartIsMax(rows) ==
    IF rows = {}
    THEN {}
    ELSE {r \in rows : r.start_date = SetMax({q.start_date : q \in rows})}

\* Mutant of FitRetained: the second query is missing.
FitRetained_AllValid(rows, X) == QueryStartLE(rows, MaxTimestamp(X))

\* The rows self.cv_results holds after fit(X).
FitRetained(rows, X) == QueryStartIsMax(QueryStartLE(rows, MaxTimestamp(X)))

\* Mutant of QueryLeaves: the frame is filtered in place.
QueryLeaves_InPlace(table, kept) == Table(kept)

\* What the frame DataFrame.query was called on holds afterwards: query
\* returns a new frame and leaves its receiver as it was.
QueryLeaves(table, kept) == table

\* fit(X).  Until the first fit returns, self.cv_results is the object the
\* caller gave to the constructor, and the first query is called on it;
\* from then on self.cv_results is a frame of the Forecaster's own.
FcFitOn(X) ==
    /\ fc.exists
    /\ fc' = [fc EXCEPT !.cv_results = Table(FitRetained(fc.cv_results.rows, X)),
                        !.is_fitted = TRUE]
    /\ fcOut' = Outcome("fit", "none", NoTable)
    /\ fcLog' = [fcLog EXCEPT !.fitCalled = TRUE, !.fitMax = MaxTimestamp(X)]
    /\ cvTable' = IF fc.is_fitted
                  THEN cvTable
                  ELSE QueryLeaves(cvTable, QueryStartLE(fc.cv_results.rows, MaxTimestamp(X)))
    /\ UNCHANGED fcCalls

FcFit == \E X \in FcHistories : FcFitOn(X)

----------------------------------------------------------------------------
(* Forecaster.predict *)

\* The rows of self.cv_results whose entity has rows in X: the others
\* contribute an empty frame.
Served(rows, X) == {r \in rows : r.unique_id \in DOMAIN X}

\* Mutant of GenerateForecast: the forecast starts at the entity's last
\* timestamp.
GenerateForecast_FromLast(X, r, h) ==
    {[unique_id |-> r.unique_id, ds |-> t] : t \in X[r.unique_id]..(X[r.unique_id] + h - 1)}

\* _generate_forecast: sf.forecast(df, h) gives the h timestamps after the
\* entity's last one.
GenerateForecast(X, r, h) ==
    {[unique_id |-> r.unique_id, ds |-> t] : t \in (X[r.unique_id] + 1)..(X[r.unique_id] + h)}

\* The rows of a table in the order itertuples gives them.
RECURSIVE RowsInOrder(_)
RowsInOrder(rows) ==
    IF rows = {}
    THEN <<>>
    ELSE LET r == CHOOSE q \in rows : \A p \in rows : q.unique_id <= p.unique_id
         IN <<r>> \o RowsInOrder(rows \ {r})

\* The _apply_forecast calls that reach _generate_forecast, one per row
\* whose entity has history: the instance ModelBank returns for the row's
\* model and the last timestamp of the entity's history it forecasts from.
ForecastModels(rows, X) ==
    LET served == RowsInOrder(Served(rows, X))
        got == GetAll(heap, [n \in DOMAIN served |-> served[n].best_model])
    IN {[unique_id |-> served[n].unique_id,
         model |-> served[n].best_model,
         empty |-> FALSE,
         instance |-> got.refs[n],
         last |-> X[served[n].unique_id]] : n \in DOMAIN served}

\* Mutant of EmptyResults: the model is asked for before df.empty is tested.
EmptyResults_Instantiates(rows, X) ==
    {[unique_id |-> r.unique_id,
      model |-> r.best_model,
      empty |-> TRUE,
      instance |-> NewId(heap),
      last |-> 0] : r \in rows \ Served(rows, X)}

\* The _apply_forecast calls that find df.empty and return pd.DataFrame().
EmptyResults(rows, X) ==
    {[unique_id |-> r.unique_id,
      model |-> r.best_model,
      empty |-> TRUE,
      instance |-> NoneRef,
      last |-> 0] : r \in rows \ Served(rows, X)}

\* pd.concat(results) raises ValueError when the list of results is empty.
ConcatRaises(rows) == rows = {}

\* predict(X)
FcPredictOn(X) ==
    /\ fc.exists
    /\ IF ~fc.is_fitted
       THEN /\ fcOut' = Outcome("predict", "NotFitted", NoTable)
            /\ UNCHANGED <<fc, fcCalls, fcLog, cvTable>>
       ELSE IF \E r \in Served(fc.cv_results.rows, X) : ModelBankGetRaises(r.best_model)
       THEN /\ fcOut' = Outcome("predict", "ValueError", NoTable)
            /\ fcCalls' = {}
            /\ UNCHANGED <<fc, fcLog, cvTable>>
       ELSE IF ConcatRaises(fc.cv_results.rows)
       THEN /\ fcOut' = Outcome("predict", "ConcatValueError", NoTable)
            /\ fcCalls' = {}
            /\ UNCHANGED <<fc, fcLog, cvTable>>
       ELSE /\ fcOut' = Outcome("predict", "none",
                   Table(UNION {GenerateForecast(X, r, fc.forecast_horizon) :
                                   r \in Served(fc.cv_results.rows, X)}))
            /\ fcCalls' = ForecastModels(fc.cv_results.rows, X)
                              \cup EmptyResults(fc.cv_results.rows, X)
            /\ UNCHANGED <<fc, fcLog, cvTable>>

FcPredict == \E X \in FcHistories : FcPredictOn(X)

----------------------------------------------------------------------------
(* The Forecaster's specification: the caller holds a decision table, builds *)
(* a Forecaster on it and calls fit and predict in any order.                *)

FcInit ==
    /\ cv = CrossValidatorInit(<<MODEL_HISTORIC_AVERAGE>>, "D", 1, 1, 1, MAE)
    /\ cvOut = Outcome("init", "none", NoTable)
    /\ cvCalls = {}
    /\ cvLog = [fitted |-> FALSE, transformed |-> FALSE]
    /\ fc = NoForecaster
    /\ fcOut = Outcome("none", "none", NoTable)
    /\ fcCalls = {}
    /\ fcLog = NoFcLog
    /\ cvTable \in {Table(rows) : rows \in DecisionTables}
    /\ bankModels = RegistryModels
    /\ heap = RegistryHeap
    /\ refs = <<>>
    /\ mbOut = NoMbOut
    /\ par = NoPar
    /\ caller = NoCaller
    /\ mt = NoMetricRun
    /\ imp = NoImputer

FcNext ==
    \/ FcConstruct /\ UNCHANGED <<cvVars, mbVars, par, auxVars>>
    \/ FcFit /\ UNCHANGED <<cvVars, mbVars, par, auxVars>>
    \/ FcPredict /\ UNCHANGED <<cvVars, mbVars, par, auxVars>>

SpecForecaster == FcInit /\ [][FcNext]_vars

----------------------------------------------------------------------------
(* ModelBank.get, and the fits a caller does on the instances it got *)

\* The identifiers asked for: every key and one identifier that is no key.
GetInputs == Range(ModelBankKeys) \cup {UnknownModel}

\* The caller holds at most MaxInstances returned instances.
MaxInstances == 3

\* The series an instance is fit on.
DataInputs == {"y1", "y2"}

\* model.fit(y): the instance keeps the fit of y, replacing an earlier fit.
FitModel(m, y) == [m EXCEPT !.fitted = y]

\* model.predict(h) of a fit instance: determined by the model's class and
\* by the data it was fit on.
Predict(m) == [cls |-> m.cls, y |-> m.fitted]

MbGet ==
    /\ Len(refs) < MaxInstances
    /\ \E model_name \in GetInputs :
        IF ModelBankGetRaises(model_name)
        THEN /\ mbOut' = MbOutcome("get", "ValueError", model_name, NoneRef)
             /\ UNCHANGED <<bankModels, heap, refs>>
        ELSE LET copy == DeepCopy(heap, DictGet(bankModels, model_name))
             IN /\ heap' = copy.heap
                /\ refs' = Append(refs, copy.ref)
                /\ mbOut' = MbOutcome("get", "none", model_name, copy.ref)
                /\ UNCHANGED bankModels

\* The caller fits one of the instances it holds.
MbFit ==
    \E i \in DOMAIN refs, y \in DataInputs :
        /\ refs[i] # NoneRef
        /\ heap' = [heap EXCEPT ![refs[i]] = FitModel(@, y)]
        /\ mbOut' = MbOutcome("fit", "none", heap[refs[i]].cls, refs[i])
        /\ UNCHANGED <<bankModels, refs>>

MbInit ==
    /\ cv = CrossValidatorInit(<<MODEL_HISTORIC_AVERAGE>>, "D", 1, 1, 1, MAE)
    /\ cvOut = Outcome("init", "none", NoTable)
    /\ cvCalls = {}
    /\ cvLog = [fitted |-> FALSE, transformed |-> FALSE]
    /\ fc = NoForecaster
    /\ fcOut = Outcome("none", "none", NoTable)
    /\ fcCalls = {}
    /\ fcLog = NoFcLog
    /\ cvTable = NoTable
    /\ bankModels = RegistryModels
    /\ heap = RegistryHeap
    /\ refs = <<>>
    /\ mbOut = NoMbOut
    /\ par = NoPar
    /\ caller = NoCaller
    /\ mt = NoMetricRun
    /\ imp = NoImputer

MbNext ==
    \/ MbGet /\ UNCHANGED <<cvVars, fcVars, par, auxVars>>
    \/ MbFit /\ UNCHANGED <<cvVars, fcVars, par, auxVars>>

SpecModelBank == MbInit /\ [][MbNext]_vars

----------------------------------------------------------------------------
(* The backtest with a parallelism degree.  StatsForecast splits the series *)
(* among n_jobs workers; every worker backtests its own series and the      *)
(* frames the workers return are concatenated to cv_df.  The order of the   *)
(* workers' frames in cv_df is the scheduling order.                        *)

\* Parallelism degrees N > 1.
ParallelDegrees == {2, 3}

\* The scheduling orders of n workers: the permutations of 1..n.
Orders(n) == {o \in [1..n -> 1..n] : \A a, b \in 1..n : o[a] = o[b] => a = b}

\* The entities of X in ascending order.
RECURSIVE Sorted(_)
Sorted(S) ==
    IF S = {}
    THEN <<>>
    ELSE LET e == CHOOSE x \in S : \A y \in S : x <= y
         IN <<e>> \o Sorted(S \ {e})

\* The series worker w of n_jobs gets: the split is into consecutive runs.
ChunkOf(X, n_jobs, w) ==
    LET entities == Sorted(DOMAIN X)
    IN SelectSeq(entities,
                 LAMBDA e : LET r == CHOOSE n \in DOMAIN entities : entities[n] = e
                            IN ((r - 1) * n_jobs) \div Len(entities) + 1 = w)

RECURSIVE Concat(_)
Concat(frames) == IF frames = <<>> THEN <<>> ELSE Head(frames) \o Concat(Tail(frames))

\* The rows of cv_df for one entity: one per window, holding what every
\* model of self.models reaches in it.
WindowRows(self, X, err, e) ==
    [i \in 1..self.cv_folds |->
        [unique_id |-> e,
         cutoff |-> Cutoff(X, e, self.forecast_horizon, StepSize(self), self.cv_folds, i),
         errs |-> [j \in DOMAIN self.models |-> err[e, j]]]]

\* The frame one worker returns.
ChunkRows(self, X, err, entities) ==
    Concat([n \in DOMAIN entities |-> WindowRows(self, X, err, entities[n])])

\* cv_df: the workers' frames in scheduling order.
CvDf(self, X, err, order) ==
    Concat([n \in 1..self.n_jobs |->
               ChunkRows(self, X, err, ChunkOf(X, self.n_jobs, order[n]))])

\* groupby([unique_id, cutoff]): the keys, and the rows of a key's group.
GroupKeys(cv_df) == {<<cv_df[n].unique_id, cv_df[n].cutoff>> : n \in DOMAIN cv_df}

\* Mutant of Group: the groups are taken by position, the n-th key in key
\* order getting the n-th row of cv_df.
Group_Positional(cv_df, key) ==
    LET before == {q \in GroupKeys(cv_df) :
                      q[1] < key[1] \/ (q[1] = key[1] /\ q[2] < key[2])}
    IN <<cv_df[Cardinality(before) + 1]>>

Group(cv_df, key) ==
    SelectSeq(cv_df, LAMBDA r : r.unique_id = key[1] /\ r.cutoff = key[2])

\* _calculate_metrics(group): one column per model of self.models.
GroupMetrics(self, group) ==
    [j \in DOMAIN self.models |->
        [label |-> ColumnName(self.metric, self.models[j]), value |-> group[1].errs[j]]]

\* _determine_best_model(cv_df): the decision rows.
DetermineBestModel(self, cv_df) ==
    DecisionRows(self,
        {[unique_id |-> key[1],
          cutoff |-> key[2],
          metrics |-> GroupMetrics(self, Group(cv_df, key)),
          best_model |-> BestModel(self, key[1], key[2],
                                   GroupMetrics(self, Group(cv_df, key)))] :
            key \in GroupKeys(cv_df)})

\* fit_transform(X) of a validator like par.self with this parallelism
\* degree, the workers finishing in this order.
FitTransform(n_jobs, order) ==
    LET self == [par.self EXCEPT !.n_jobs = n_jobs]
    IN IF BacktestRaises(par.X, self.forecast_horizon, StepSize(self), self.cv_folds)
       THEN Outcome("transform", "Backtest", NoTable)
       ELSE Outcome("transform", "none",
                    Table(DetermineBestModel(self, CvDf(self, par.X, par.err, order))))

RunSequential ==
    \E order \in Orders(1) :
        par' = [par EXCEPT !.sequential = FitTransform(1, order)]

RunParallel ==
    \E n_jobs \in ParallelDegrees :
        \E order \in Orders(n_jobs) :
            par' = [par EXCEPT !.parallel = FitTransform(n_jobs, order),
                               !.order = order]

\* The candidate lists of registered identifiers.
RegisteredLists == {models \in ModelLists : \A i \in DOMAIN models : ~ModelBankGetRaises(models[i])}

ParInit ==
    /\ cv = CrossValidatorInit(<<MODEL_HISTORIC_AVERAGE>>, "D", 1, 1, 1, MAE)
    /\ cvOut = Outcome("init", "none", NoTable)
    /\ cvCalls = {}
    /\ cvLog = [fitted |-> FALSE, transformed |-> FALSE]
    /\ fc = NoForecaster
    /\ fcOut = Outcome("none", "none", NoTable)
    /\ fcCalls = {}
    /\ fcLog = NoFcLog
    /\ cvTable = NoTable
    /\ bankModels = RegistryModels
    /\ heap = RegistryHeap
    /\ refs = <<>>
    /\ mbOut = NoMbOut
    /\ caller = NoCaller
    /\ mt = NoMetricRun
    /\ imp = NoImputer
    /\ \E models \in RegisteredLists, h \in HorizonInputs, L \in SeasonInputs,
          k \in FoldInputs, X \in Histories :
          \E err \in ErrorOracles(X, Len(models)) :
              par = [exists |-> TRUE,
                     self |-> CrossValidatorInit(models, "D", h, L, k, MAE),
                     X |-> X,
                     err |-> err,
                     sequential |-> Outcome("none", "none", NoTable),
                     parallel |-> Outcome("none", "none", NoTable),
                     order |-> <<>>]

ParNext ==
    \/ RunSequential /\ UNCHANGED <<cvVars, fcVars, mbVars, auxVars>>
    \/ RunParallel /\ UNCHANGED <<cvVars, fcVars, mbVars, auxVars>>

SpecParallel == ParInit /\ [][ParNext]_vars

----------------------------------------------------------------------------
(* The error table and the callers of the CrossValidator: a caller keeps    *)
(* the table transform returned or the table read through error_df, and     *)
(* modifies the table it keeps.                                             *)

\* Mutant of DataFrameCopy: the frame itself is handed out.
DataFrameCopy_Same(table) == [table |-> table, shared |-> TRUE]

\* DataFrame.copy(): a new frame with the same rows, sharing nothing with
\* the frame it was copied from.
DataFrameCopy(table) == [table |-> table, shared |-> FALSE]

\* The caller keeps what the error_df property returned.
ReadErrorDf ==
    /\ CvErrorDf
    /\ caller' = IF cvOut'.raised = "none"
                 THEN [holds |-> "error_df",
                       table |-> DataFrameCopy(cv.error_df).table,
                       shared |-> DataFrameCopy(cv.error_df).shared,
                       op |-> "take"]
                 ELSE [caller EXCEPT !.op = "none"]

\* The caller keeps the decision table transform returned: a frame built
\* from cv_df_results after self._error_df was copied from it.
TransformAndKeep ==
    /\ CvTransform
    /\ caller' = IF cvOut'.raised = "none"
                 THEN [holds |-> "decisions", table |-> cvOut'.value,
                       shared |-> FALSE, op |-> "take"]
                 ELSE [caller EXCEPT !.op = "none"]

\* What a caller may do to a table: drop all rows, or those of one entity.
Modifications(table) ==
    {Table({})} \cup {Table({r \in table.rows : r.unique_id # e}) : e \in Entities}

\* The caller modifies the table it keeps, in place.
CallerModifies ==
    /\ caller.holds # "none"
    /\ \E new \in Modifications(caller.table) :
          /\ new # caller.table
          /\ caller' = [caller EXCEPT !.table = new, !.op = "modify"]
          /\ cv' = IF caller.shared THEN [cv EXCEPT !.error_df = new] ELSE cv
    /\ UNCHANGED <<cvOut, cvCalls, cvLog, heap>>

ErrNext ==
    \/ CvFit /\ caller' = [caller EXCEPT !.op = "none"]
            /\ UNCHANGED <<fcVars, bankModels, refs, mbOut, par, mt, imp>>
    \/ TransformAndKeep /\ UNCHANGED <<fcVars, mbVars, par, mt, imp>>
    \/ ReadErrorDf /\ UNCHANGED <<fcVars, mbVars, par, mt, imp>>
    \/ CallerModifies /\ UNCHANGED <<fcVars, bankModels, refs, mbOut, par, mt, imp>>

ErrInit ==
    /\ \E freq \in FreqInputs :
          cv = CrossValidatorInit(<<MODEL_HISTORIC_AVERAGE>>, freq, 1, 3, 2, MAE)
    /\ cvOut = Outcome("init", "none", NoTable)
    /\ cvCalls = {}
    /\ cvLog = [fitted |-> FALSE, transformed |-> FALSE]
    /\ fc = NoForecaster
    /\ fcOut = Outcome("none", "none", NoTable)
    /\ fcCalls = {}
    /\ fcLog = NoFcLog
    /\ cvTable = NoTable
    /\ bankModels = RegistryModels
    /\ heap = RegistryHeap
    /\ refs = <<>>
    /\ mbOut = NoMbOut
    /\ par = NoPar
    /\ caller = NoCaller
    /\ mt = NoMetricRun
    /\ imp = NoImputer

SpecErrorTable == ErrInit /\ [][ErrNext]_vars

----------------------------------------------------------------------------
(* METRIC_BANK: the three scikit-learn metrics, on integer sequences.  A    *)
(* metric's value is an exact fraction num/den; a den of 0 is the value of  *)
(* a division by zero (inf or nan).                                         *)

\* The numbers a sequence holds, and its greatest length.
MetricValues == {-1, 0, 1, 2}
MaxSeqLen == 2
MetricSequences == UNION {[1..n -> MetricValues] : n \in 1..MaxSeqLen}

Abs(x) == IF x < 0 THEN -x ELSE x

Frac(num, den) == [num |-> num, den |-> den]
FracAdd(p, q) == Frac(p.num * q.den + q.num * p.den, p.den * q.den)

RECURSIVE FracSum(_)
FracSum(terms) ==
    IF terms = <<>> THEN Frac(0, 1) ELSE FracAdd(Head(terms), FracSum(Tail(terms)))

\* The mean of a sequence of fractions.
FracMean(terms) == Frac(FracSum(terms).num, FracSum(terms).den * Len(terms))

\* 1 / eps, eps being the smallest float spacing that replaces a zero
\* denominator in mean_absolute_percentage_error; any integer above every
\* |y| of MetricValues keeps max(|y|, eps) as it is computed.
EpsInverse == 1024

\* Mutant of MapeTerm: the denominator is |y_true| itself.
MapeTerm_NoEpsilon(y_true, y_pred) == Frac(Abs(y_pred - y_true), Abs(y_true))

\* |y_pred - y_true| / max(|y_true|, eps)
MapeTerm(y_true, y_pred) ==
    IF Abs(y_true) >= 1
    THEN Frac(Abs(y_pred - y_true), Abs(y_true))
    ELSE Frac(Abs(y_pred - y_true) * EpsInverse, 1)

mean_absolute_error(y_true, y_pred) ==
    FracMean([i \in DOMAIN y_true |-> Frac(Abs(y_pred[i] - y_true[i]), 1)])

mean_absolute_percentage_error(y_true, y_pred) ==
    FracMean([i \in DOMAIN y_true |-> MapeTerm(y_true[i], y_pred[i])])

\* The mean squared error, of which root_mean_squared_error is the root.
mean_squared_error(y_true, y_pred) ==
    FracMean([i \in DOMAIN y_true |->
                 Frac((y_pred[i] - y_true[i]) * (y_pred[i] - y_true[i]), 1)])

\* A metric's value: the fraction, and whether the value is its square root.
MetricApply(metric, y_true, y_pred) ==
    IF metric = MAE
    THEN [value |-> mean_absolute_error(y_true, y_pred), root |-> FALSE]
    ELSE IF metric = MAPE
    THEN [value |-> mean_absolute_percentage_error(y_true, y_pred), root |-> FALSE]
    ELSE [value |-> mean_squared_error(y_true, y_pred), root |-> TRUE]

\* The value is the number 0: sqrt(0) = 0, and 0/0 is not a number.
IsZero(result) == result.value.num = 0 /\ result.value.den # 0

\* METRIC_BANK[metric](y_true, y_pred)
MetricCall ==
    /\ mt.exists
    /\ ~mt.applied
    /\ mt' = [mt EXCEPT !.applied = TRUE,
                        !.result = MetricApply(mt.metric, mt.y_true, mt.y_pred)]

MetricInit ==
    /\ cv = CrossValidatorInit(<<MODEL_HISTORIC_AVERAGE>>, "D", 1, 1, 1, MAE)
    /\ cvOut = Outcome("init", "none", NoTable)
    /\ cvCalls = {}
    /\ cvLog = [fitted |-> FALSE, transformed |-> FALSE]
    /\ fc = NoForecaster
    /\ fcOut = Outcome("none", "none", NoTable)
    /\ fcCalls = {}
    /\ fcLog = NoFcLog
    /\ cvTable = NoTable
    /\ bankModels = RegistryModels
    /\ heap = RegistryHeap
    /\ refs = <<>>
    /\ mbOut = NoMbOut
    /\ par = NoPar
    /\ caller = NoCaller
    /\ imp = NoImputer
    /\ \E metric \in METRIC_BANK, y_true \in MetricSequences, y_pred \in MetricSequences :
          /\ Len(y_true) = Len(y_pred)
          /\ mt = [exists |-> TRUE, metric |-> metric, y_true |-> y_true,
                   y_pred |-> y_pred, applied |-> FALSE,
                   result |-> [value |-> Frac(0, 0), root |-> FALSE]]

MetricNext ==
    MetricCall /\ UNCHANGED <<cvVars, fcVars, mbVars, par, caller, imp>>

SpecMetrics == MetricInit /\ [][MetricNext]_vars

----------------------------------------------------------------------------
(* The end-to-end scenario: entities 1 and 2 with 30 days of daily history, *)
(* the candidate list ["HistoricAverage"], horizon 7, 2 folds, season       *)
(* length 14 and metric MAE.  The caller fits the CrossValidator,           *)
(* transforms the history, builds a Forecaster on the decision table it got *)
(* and fits and predicts on the same history.                               *)

ScenarioValidator == CrossValidatorInit(<<MODEL_HISTORIC_AVERAGE>>, "D", 7, 14, 2, MAE)

\* Both entities are observed on the days 1..30.
ScenarioHistory == [e \in Entities |-> 30]

\* Forecaster(cv_results=<the table transform returned>, forecast_horizon=7)
ScenarioConstruct ==
    /\ TransformReturned
    /\ \E level \in LevelInputs :
          FcConstructWith(cvOut.value, ScenarioValidator.forecast_horizon, level)
    /\ cvTable' = cvOut.value

ScenarioInit ==
    /\ cv = ScenarioValidator
    /\ cvOut = Outcome("init", "none", NoTable)
    /\ cvCalls = {}
    /\ cvLog = [fitted |-> FALSE, transformed |-> FALSE]
    /\ fc = NoForecaster
    /\ fcOut = Outcome("none", "none", NoTable)
    /\ fcCalls = {}
    /\ fcLog = NoFcLog
    /\ cvTable = NoTable
    /\ bankModels = RegistryModels
    /\ heap = RegistryHeap
    /\ refs = <<>>
    /\ mbOut = NoMbOut
    /\ par = NoPar
    /\ caller = NoCaller
    /\ mt = NoMetricRun
    /\ imp = NoImputer

ScenarioNext ==
    \/ CvFit /\ UNCHANGED <<fcVars, bankModels, refs, mbOut, par, auxVars>>
    \/ CvTransformOn(ScenarioHistory) /\ UNCHANGED <<fcVars, mbVars, par, auxVars>>
    \/ ScenarioConstruct /\ UNCHANGED <<cvVars, mbVars, par, auxVars>>
    \/ FcFitOn(ScenarioHistory) /\ UNCHANGED <<cvVars, mbVars, par, auxVars>>
    \/ FcPredictOn(ScenarioHistory) /\ UNCHANGED <<cvVars, mbVars, par, auxVars>>

SpecScenario == ScenarioInit /\ [][ScenarioNext]_vars

----------------------------------------------------------------------------
(* app/imputers.py.  A frame X has the columns timestamp, unique_id and one *)
(* variable, and one row at most for a (timestamp, unique_id) pair: it is a *)
(* function from the pairs that have a row to the variable's value.         *)

\* A missing value of the variable: a number no measurement is.
NaN == 0

ImputerSensors == {1, 2, 3}
ImputerTimestamps == {1, 2}

\* The value a sensor measured at a timestamp; no two measurements agree, so
\* that a filled value tells which row it came from.
Measured(t, s) == 10 * t + s

\* The frames: any non-empty set of rows, each with its measurement or NaN.
Frames ==
    UNION {{[k \in K |-> IF k \in V THEN Measured(k[1], k[2]) ELSE NaN] : V \in SUBSET K} :
              K \in (SUBSET (ImputerTimestamps \X ImputerSensors)) \ {{}}}

\* sensor_ids, in the order of the distance matrix's rows and columns.
SensorIdLists == {<<1, 2, 3>>, <<3, 1, 2>>}

\* Distance matrices: all distances different, and all distances equal.
DistanceMatrices ==
    {<<<<0, 1, 2>>, <<1, 0, 3>>, <<2, 3, 0>>>>,
     <<<<0, 5, 2>>, <<5, 0, 1>>, <<2, 1, 0>>>>,
     <<<<0, 1, 1>>, <<1, 0, 1>>, <<1, 1, 0>>>>}

\* Mutant of ArgSort: the indices in their own order.
ArgSort_Unsorted(a) == [j \in DOMAIN a |-> j]

\* np.argsort(a): the indices of a in ascending order of the values, equal
\* values in the order of their indices (lists this short are sorted by
\* insertion).
ArgSort(a) ==
    CHOOSE p \in Permutations(DOMAIN a) :
        \A i, j \in DOMAIN a :
            i < j => \/ a[p[i]] < a[p[j]]
                     \/ (a[p[i]] = a[p[j]] /\ p[i] < p[j])

\* NearestSensorImputer(distance_matrix, sensor_ids)
NearestSensorImputerInit(distance_matrix, sensor_ids) ==
    [distance_matrix |-> distance_matrix,
     sensor_ids |-> sensor_ids,
     is_fitted |-> FALSE,
     nearest_sensors |-> None]

\* _create_sensor_distance_dict: for every sensor id, all the sensor ids in
\* ascending order of row i of the distance matrix.
CreateSensorDistanceDict(self) ==
    [sensor_id \in Range(self.sensor_ids) |->
        LET i == CHOOSE n \in DOMAIN self.sensor_ids : self.sensor_ids[n] = sensor_id
            sorted_indices == ArgSort(self.distance_matrix[i])
        IN [j \in DOMAIN sorted_indices |-> self.sensor_ids[sorted_indices[j]]]]

\* NearestSensorImputer.fit
NearestSensorFit(self) ==
    [self EXCEPT !.nearest_sensors = CreateSensorDistanceDict(self), !.is_fitted = TRUE]

\* _impute_row's loop from (value, index) on: while the value is missing and
\* sensors are left, it looks up the row of the next sensor at the same
\* timestamp; a KeyError leaves the value as it is.  Returns the value and
\* the number of lookups made.
RECURSIVE ImputeRowFrom(_, _, _, _, _)
ImputeRowFrom(X_series, sensors, measure_date, value, index) ==
    IF value = NaN /\ index < Len(sensors)
    THEN ImputeRowFrom(X_series, sensors, measure_date,
                       IF <<measure_date, sensors[index + 1]>> \in DOMAIN X_series
                       THEN X_series[<<measure_date, sensors[index + 1]>>]
                       ELSE value,
                       index + 1)
    ELSE [value |-> value, lookups |-> index]

\* _impute_row(row), row being the row of X with this key.
ImputeRow(X, nearest_sensors, key) ==
    ImputeRowFrom(X, nearest_sensors[key[2]], key[1], X[key], 0)

\* NearestSensorImputer.transform(X) of a fitted imputer: the frame with
\* every row's variable replaced by _impute_row(row).
NearestSensorTransform(self, X) ==
    [key \in DOMAIN X |-> ImputeRow(X, self.nearest_sensors, key).value]

\* The result of an imputer call: the frame returned and, for every row,
\* the lookups _impute_row made.
ImputerOutcome(op, raised, value, lookups) ==
    [op |-> op, raised |-> raised, value |-> value, lookups |-> lookups]

\* imputer.fit(X)
NsFit ==
    /\ imp.exists
    /\ imp' = [imp EXCEPT !.self = NearestSensorFit(imp.self),
                          !.out = ImputerOutcome("fit", "none", <<>>, <<>>)]

\* imputer.transform(X)
NsTransform ==
    /\ imp.exists
    /\ imp' = [imp EXCEPT !.out =
                  IF ~imp.self.is_fitted
                  THEN ImputerOutcome("transform", "RuntimeError", <<>>, <<>>)
                  ELSE ImputerOutcome("transform", "none",
                           NearestSensorTransform(imp.self, imp.X),
                           [key \in DOMAIN imp.X |->
                               ImputeRow(imp.X, imp.self.nearest_sensors, key).lookups])]

NsInit ==
    /\ cv = CrossValidatorInit(<<MODEL_HISTORIC_AVERAGE>>, "D", 1, 1, 1, MAE)
    /\ cvOut = Outcome("init", "none", NoTable)
    /\ cvCalls = {}
    /\ cvLog = [fitted |-> FALSE, transformed |-> FALSE]
    /\ fc = NoForecaster
    /\ fcOut = Outcome("none", "none", NoTable)
    /\ fcCalls = {}
    /\ fcLog = NoFcLog
    /\ cvTable = NoTable
    /\ bankModels = RegistryModels
    /\ heap = RegistryHeap
    /\ refs = <<>>
    /\ mbOut = NoMbOut
    /\ par = NoPar
    /\ caller = NoCaller
    /\ mt = NoMetricRun
    /\ \E distance_matrix \in DistanceMatrices, sensor_ids \in SensorIdLists, X \in Frames :
          imp = [exists |-> TRUE,
                 self |-> NearestSensorImputerInit(distance_matrix, sensor_ids),
                 X |-> X,
                 out |-> ImputerOutcome("init", "none", <<>>, <<>>)]

NsNext ==
    \/ NsFit /\ UNCHANGED <<cvVars, fcVars, mbVars, par, caller, mt>>
    \/ NsTransform /\ UNCHANGED <<cvVars, fcVars, mbVars, par, caller, mt>>

SpecNearestSensor == NsInit /\ [][NsNext]_vars

----------------------------------------------------------------------------
(* SupportedLastImputer, with a NearestSensorImputer as its support imputer. *)
(* The frame transform returns is the sequence of its rows.                  *)

\* first_valid_index() and last_valid_index() of a column without a value.
NoIndex == -1

\* The elements of a set of numbers in ascending order.
Ascending(S) ==
    CHOOSE q \in [1..Cardinality(S) -> S] : \A i, j \in DOMAIN q : i < j => q[i] < q[j]

Row(timestamp, unique_id, value) ==
    [timestamp |-> timestamp, unique_id |-> unique_id, value |-> value]

\* The rows of one entity in a frame, in the order of their timestamps.
RowsOf(X, unique_id) ==
    LET times == Ascending({k[1] : k \in {q \in DOMAIN X : q[2] = unique_id}})
    IN [i \in DOMAIN times |-> Row(times[i], unique_id, X[<<times[i], unique_id>>])]

\* Series.first_valid_index(): the index, from 0, of the first row with a
\* value.
FirstValidIndex(time_series) ==
    IF \A i \in DOMAIN time_series : time_series[i].value = NaN
    THEN NoIndex
    ELSE (CHOOSE i \in DOMAIN time_series :
              /\ time_series[i].value # NaN
              /\ \A j \in 1..(i - 1) : time_series[j].value = NaN) - 1

\* Series.last_valid_index()
LastValidIndex(time_series) ==
    IF \A i \in DOMAIN time_series : time_series[i].value = NaN
    THEN NoIndex
    ELSE (CHOOSE i \in DOMAIN time_series :
              /\ time_series[i].value # NaN
              /\ \A j \in (i + 1)..Len(time_series) : time_series[j].value = NaN) - 1

\* time_series.iloc[start:stop, :], the rows start..stop-1 counted from 0; a
\* bound that is None is the frame's own end on that side.
ILoc(time_series, start, stop) ==
    SubSeq(time_series,
           (IF start = NoIndex THEN 0 ELSE start) + 1,
           IF stop = NoIndex THEN Len(time_series) ELSE stop)

\* DataFrame.ffill(): a missing value takes the value of the row before it.
RECURSIVE FFill(_)
FFill(rows) ==
    IF Len(rows) <= 1
    THEN rows
    ELSE LET front == FFill(SubSeq(rows, 1, Len(rows) - 1))
             last == rows[Len(rows)]
         IN Append(front,
                   IF last.value = NaN
                   THEN [last EXCEPT !.value = front[Len(front)].value]
                   ELSE last)

\* _use_support_imputer(X, time_series, unique_id): the support imputer is
\* fit on, and transforms, the rows of X, of every entity, at the timestamps
\* of time_series; the rows of unique_id in its result are returned.
UseSupportImputer(self, X, time_series, unique_id) ==
    IF time_series = <<>>
    THEN <<>>
    ELSE LET times == {time_series[i].timestamp : i \in DOMAIN time_series}
             data == [k \in {q \in DOMAIN X : q[1] \in times} |-> X[k]]
             result == NearestSensorTransform(NearestSensorFit(self.support_imputer), data)
         IN RowsOf(result, unique_id)

\* _impute_time_series(X, unique_id)
ImputeTimeSeries(self, X, unique_id) ==
    LET time_series == RowsOf(X, unique_id)
        first_valid_index == FirstValidIndex(time_series)
        last_valid_index == LastValidIndex(time_series)
        data_for_support_imputer_first == ILoc(time_series, NoIndex, first_valid_index)
        data_for_support_imputer_last == ILoc(time_series, last_valid_index, NoIndex)
        data_for_imputation == ILoc(time_series, first_valid_index, last_valid_index)
    IN UseSupportImputer(self, X, data_for_support_imputer_first, unique_id)
           \o FFill(data_for_imputation)
           \o UseSupportImputer(self, X, data_for_support_imputer_last, unique_id)

\* pd.concat of the results of the entities ids[n..], in this order.
RECURSIVE ConcatSeries(_, _, _, _)
ConcatSeries(self, X, ids, n) ==
    IF n > Len(ids)
    THEN <<>>
    ELSE ImputeTimeSeries(self, X, ids[n]) \o ConcatSeries(self, X, ids, n + 1)

\* SupportedLastImputer.transform(X) of a fitted imputer: X is sorted by
\* unique_id and timestamp, and the entities are taken in that order.
SupportedLastTransform(self, X) ==
    ConcatSeries(self, X, Ascending({k[2] : k \in DOMAIN X}), 1)

\* SupportedLastImputer(support_imputer)
SupportedLastImputerInit(support_imputer) ==
    [is_fitted |-> FALSE, support_imputer |-> support_imputer]

\* imputer.fit(X)
SlFit ==
    /\ imp.exists
    /\ imp' = [imp EXCEPT !.self.is_fitted = TRUE,
                          !.out = ImputerOutcome("fit", "none", <<>>, <<>>)]

\* imputer.transform(X); every entity has a last slice that is not empty,
\* so the support imputer has been fit when transform returns.
SlTransform ==
    /\ imp.exists
    /\ IF ~imp.self.is_fitted
       THEN imp' = [imp EXCEPT !.out =
                       ImputerOutcome("transform", "RuntimeError", <<>>, <<>>)]
       ELSE imp' = [imp EXCEPT
                       !.self.support_imputer = NearestSensorFit(imp.self.support_imputer),
                       !.out = ImputerOutcome("transform", "none",
                                   SupportedLastTransform(imp.self, imp.X), <<>>)]

SlInit ==
    /\ cv = CrossValidatorInit(<<MODEL_HISTORIC_AVERAGE>>, "D", 1, 1, 1, MAE)
    /\ cvOut = Outcome("init", "none", NoTable)
    /\ cvCalls = {}
    /\ cvLog = [fitted |-> FALSE, transformed |-> FALSE]
    /\ fc = NoForecaster
    /\ fcOut = Outcome("none", "none", NoTable)
    /\ fcCalls = {}
    /\ fcLog = NoFcLog
    /\ cvTable = NoTable
    /\ bankModels = RegistryModels
    /\ heap = RegistryHeap
    /\ refs = <<>>
    /\ mbOut = NoMbOut
    /\ par = NoPar
    /\ caller = NoCaller
    /\ mt = NoMetricRun
    /\ \E distance_matrix \in DistanceMatrices, sensor_ids \in SensorIdLists, X \in Frames :
          imp = [exists |-> TRUE,
                 self |-> SupportedLastImputerInit(
                              NearestSensorImputerInit(distance_matrix, sensor_ids)),
                 X |-> X,
                 out |-> ImputerOutcome("init", "none", <<>>, <<>>)]

SlNext ==
    \/ SlFit /\ UNCHANGED <<cvVars, fcVars, mbVars, par, caller, mt>>
    \/ SlTransform /\ UNCHANGED <<cvVars, fcVars, mbVars, par, caller, mt>>

SpecSupportedLast == SlInit /\ [][SlNext]_vars

----------------------------------------------------------------------------
(* The pipeline: the caller fits a CrossValidator, transforms a history X,  *)
(* builds a Forecaster on the decision table it got, with the               *)
(* CrossValidator's horizon, and fits and predicts on the same X.           *)

\* X is the history the last backtest ran on.
IsBacktested(X) ==
    /\ DOMAIN X = {f.unique_id : f \in cvCalls}
    /\ \A f \in cvCalls : f.last = X[f.unique_id]

\* cv.transform(X), before the Forecaster is built.
PipelineTransform == ~fc.exists /\ CvTransform

\* Forecaster(cv_results=<the table transform returned>, forecast_horizon=h)
PipelineConstruct ==
    /\ TransformReturned
    /\ \E level \in LevelInputs : FcConstructWith(cvOut.value, cv.forecast_horizon, level)
    /\ cvTable' = cvOut.value

PipelineFit == \E X \in Histories : IsBacktested(X) /\ FcFitOn(X)

PipelinePredict == \E X \in Histories : IsBacktested(X) /\ FcPredictOn(X)

PipelineInit ==
    /\ \E h \in HorizonInputs, L \in SeasonInputs, k \in FoldInputs :
          cv = CrossValidatorInit(<<MODEL_HISTORIC_AVERAGE>>, "D", h, L, k, MAE)
    /\ cvOut = Outcome("init", "none", NoTable)
    /\ cvCalls = {}
    /\ cvLog = [fitted |-> FALSE, transformed |-> FALSE]
    /\ fc = NoForecaster
    /\ fcOut = Outcome("none", "none", NoTable)
    /\ fcCalls = {}
    /\ fcLog = NoFcLog
    /\ cvTable = NoTable
    /\ bankModels = RegistryModels
    /\ heap = RegistryHeap
    /\ refs = <<>>
    /\ mbOut = NoMbOut
    /\ par = NoPar
    /\ caller = NoCaller
    /\ mt = NoMetricRun
    /\ imp = NoImputer

PipelineNext ==
    \/ CvFit /\ UNCHANGED <<fcVars, bankModels, refs, mbOut, par, auxVars>>
    \/ PipelineTransform /\ UNCHANGED <<fcVars, mbVars, par, auxVars>>
    \/ PipelineConstruct /\ UNCHANGED <<cvVars, mbVars, par, auxVars>>
    \/ PipelineFit /\ UNCHANGED <<cvVars, mbVars, par, auxVars>>
    \/ PipelinePredict /\ UNCHANGED <<cvVars, mbVars, par, auxVars>>

SpecPipeline == PipelineInit /\ [][PipelineNext]_vars

----------------------------------------------------------------------------
(* Properties of the CrossValidator *)

\* The error of candidate model m in row r of the error table.
ErrOf(r, m) ==
    LET j == CHOOSE n \in DOMAIN r.metrics : r.metrics[n].label = ColumnName(cv.metric, m)
    IN r.metrics[j].value

ListPos(m) == CHOOSE i \in DOMAIN cv.models : cv.models[i] = m
RegistryPos(m) == CHOOSE i \in DOMAIN ModelBankKeys : ModelBankKeys[i] = m

\* C1: for every (entity, cutoff) group, the best_model that transform emits
\* is a candidate model, and no candidate has a strictly smaller error in
\* that group.
C1_BestModelHasMinimumError ==
    TransformReturned =>
        \A r \in cv.error_df.rows :
            \E d \in cvOut.value.rows :
                /\ d.unique_id = r.unique_id
                /\ d.start_date = r.cutoff + cv.forecast_horizon
                /\ d.best_model \in Range(cv.models)
                /\ \A m \in Range(cv.models) : ErrOf(r, d.best_model) <= ErrOf(r, m)

\* C1 witness: a group in which the second candidate is strictly better than
\* the first, and is selected.
C1_Witness ==
    /\ TransformReturned
    /\ Len(cv.models) = 2
    /\ \E r \in cv.error_df.rows :
           /\ ErrOf(r, cv.models[2]) < ErrOf(r, cv.models[1])
           /\ r.best_model = cv.models[2]

\* C2 as claimed: among the candidates that tie with the selected model, the
\* selected one comes first in the Model Registry's enumeration order.
C2_TieBrokenByRegistryOrder ==
    TransformReturned =>
        \A d \in cvOut.value.rows, r \in cv.error_df.rows :
            (d.unique_id = r.unique_id /\ d.start_date = r.cutoff + cv.forecast_horizon) =>
                \A m \in Range(cv.models) :
                    ErrOf(r, m) = ErrOf(r, d.best_model) =>
                        RegistryPos(d.best_model) <= RegistryPos(m)

\* C2 as amended: among the candidates that tie with the selected model, the
\* selected one comes first in the caller's candidate list (self.models).
C2_TieBrokenByListOrder ==
    TransformReturned =>
        \A d \in cvOut.value.rows, r \in cv.error_df.rows :
            (d.unique_id = r.unique_id /\ d.start_date = r.cutoff + cv.forecast_horizon) =>
                \A m \in Range(cv.models) :
                    ErrOf(r, m) = ErrOf(r, d.best_model) =>
                        ListPos(d.best_model) <= ListPos(m)

\* C2 witness: two candidates listed against the registry's order tie, and
\* the one listed first is selected.
C2_Witness ==
    /\ TransformReturned
    /\ Len(cv.models) = 2
    /\ RegistryPos(cv.models[2]) < RegistryPos(cv.models[1])
    /\ \E r \in cv.error_df.rows :
           /\ ErrOf(r, cv.models[1]) = ErrOf(r, cv.models[2])
           /\ r.best_model = cv.models[1]

\* C3: in every backtest window each model is fit on exactly the entity's
\* observations with timestamp <= cutoff and scored on the h observations
\* after the cutoff; no timestamp of cutoff+1..cutoff+h is fit on.
C3_NoLeakage ==
    \A f \in cvCalls :
        /\ f.train = 1..f.cutoff
        /\ f.test = (f.cutoff + 1)..(f.cutoff + cv.forecast_horizon)
        /\ f.train \cap (f.cutoff + 1)..(f.cutoff + cv.forecast_horizon) = {}

\* C3 witness: a backtest with two windows of one entity; the earlier one
\* has observations after its test part that stay out of both its sets.
C3_Witness ==
    /\ TransformReturned
    /\ \E f, g \in cvCalls :
           /\ f.unique_id = g.unique_id
           /\ f.cutoff < g.cutoff
           /\ f.train # {}
           /\ Cardinality(f.test) = cv.forecast_horizon
           /\ g.test \ f.test # {}

\* C6: a transform step fails with the not-fitted error exactly when no fit
\* has returned before it, and then it runs no backtest and changes nothing
\* of the instance.
C6_TransformNeedsFit ==
    [][cvOut'.op = "transform" =>
          /\ (cvOut'.raised = "NotFitted") <=> ~cvLog.fitted
          /\ ~cvLog.fitted => (cv' = cv /\ cvCalls' = cvCalls)]_vars

\* C6 witness: a transform on an instance without a returned fit has failed
\* with the not-fitted error, leaving no backtest and no error table.
C6_Witness ==
    /\ cvOut.op = "transform"
    /\ cvOut.raised = "NotFitted"
    /\ ~cvLog.fitted
    /\ cvCalls = {}
    /\ cv.error_df.isNone

C10_FitRejectsUnknownIdentifiers ==
    (/\ cvOut.op = "fit"
     /\ \/ cv.metric \notin METRIC_BANK
        \/ \E i \in DOMAIN cv.models : cv.models[i] \notin Range(ModelBankKeys)) =>
        (cvOut.raised # "none" /\ ~cv.is_fitted)

----------------------------------------------------------------------------
(* Properties of the Forecaster *)

\* C4: a fit step leaves rows of the table the Forecaster held (at the first
\* fit, the table given to the constructor); every retained row has
\* decision_start <= max(history.timestamp); the retained rows are exactly
\* the rows whose decision_start is the greatest one <= max(history.timestamp).
C4_FitRetainsLatestDecisions ==
    [][fcOut'.op = "fit" =>
          LET held == fc.cv_results.rows
              retained == fc'.cv_results.rows
              ts == fcLog'.fitMax
              valid == {r \in held : r.start_date <= ts}
          IN /\ ~fc.is_fitted => held = cvTable.rows
             /\ retained \subseteq held
             /\ \A r \in retained : r.start_date <= ts
             /\ \A r, q \in retained : r.start_date = q.start_date
             /\ valid # {} =>
                    retained = {r \in held :
                                   r.start_date = SetMax({q.start_date : q \in valid})}
             /\ valid = {} => retained = {}]_vars

\* C4 witness: a fit has retained the decisions of two entities that share
\* the latest valid decision_start, and has dropped a later decision.
C4_Witness ==
    /\ fcOut.op = "fit"
    /\ Cardinality(fc.cv_results.rows) = 2
    /\ \E r \in cvTable.rows : r.start_date > fcLog.fitMax
    /\ \A r \in fc.cv_results.rows : r.start_date <= fcLog.fitMax

\* C5 as claimed: after a fit step, every entity that had a decision with
\* decision_start <= max(history.timestamp) has exactly one retained
\* decision, its latest such one.
C5_FitRetainsLatestPerEntity ==
    [][fcOut'.op = "fit" =>
          LET held == fc.cv_results.rows
              retained == fc'.cv_results.rows
              ts == fcLog'.fitMax
              valid(e) == {r \in held : r.unique_id = e /\ r.start_date <= ts}
          IN \A e \in Entities :
                 valid(e) # {} =>
                     {r \in retained : r.unique_id = e}
                         = {r \in valid(e) :
                               r.start_date = SetMax({q.start_date : q \in valid(e)})}]_vars

\* C8: a predict step fails with the not-fitted error exactly when fit has
\* not been called on the instance before it, and then it returns no
\* forecast, instantiates no model and changes nothing of the instance.
C8_PredictNeedsFit ==
    [][fcOut'.op = "predict" =>
          /\ (fcOut'.raised = "NotFitted") <=> ~fcLog.fitCalled
          /\ ~fcLog.fitCalled =>
                 (fcOut'.value = NoTable /\ fcCalls' = {} /\ fc' = fc)]_vars

\* C8 witness: a predict on a constructed instance has failed with the
\* not-fitted error.
C8_Witness ==
    /\ fc.exists
    /\ fcOut.op = "predict"
    /\ fcOut.raised = "NotFitted"
    /\ ~fcLog.fitCalled

\* C9: the constructor raises the unsupported-configuration error and
\* creates no instance when the list of levels has zero or more than one
\* element; with one element it returns an instance holding that list.
C9_ConstructorNeedsOneLevel ==
    fcOut.op = "init" =>
        /\ Len(fcLog.initLevel) # 1 =>
               (fcOut.raised = "NotImplementedError" /\ ~fc.exists)
        /\ Len(fcLog.initLevel) = 1 =>
               (fcOut.raised = "none" /\ fc.exists /\ fc.level = fcLog.initLevel)

\* C9 witness: a construction with an empty list of levels has failed.
C9_Witness ==
    /\ fcOut.op = "init"
    /\ fcOut.raised = "NotImplementedError"
    /\ Len(fcLog.initLevel) = 0
    /\ ~fc.exists

\* C14: the backtest of a transform has, for every entity, exactly cv_folds
\* cutoffs; with h = forecast_horizon and s = season_length // cv_folds
\* (floor) they are the timestamps last - h - j*s for j = 0..cv_folds-1,
\* where last is the end of the entity's history: the windows step backward
\* from the end by multiples of s, the latest one leaving the last h
\* observations to be scored on.
C14_BacktestWindows ==
    \A f \in cvCalls :
        LET cutoffs == {g.cutoff : g \in {q \in cvCalls : q.unique_id = f.unique_id}}
            k == cv.cv_folds
            h == cv.forecast_horizon
            s == cv.season_length \div cv.cv_folds
        IN /\ Cardinality(cutoffs) = k
           /\ cutoffs = {f.last - h - j * s : j \in 0..(k - 1)}
           /\ Cardinality(f.test) = h

\* C14 witness: a transform has returned for two entities whose histories
\* end at different timestamps, with two folds and a season length that the
\* fold count does not divide.
C14_Witness ==
    /\ TransformReturned
    /\ cv.cv_folds = 2
    /\ cv.season_length = 3
    /\ \E f, g \in cvCalls : f.unique_id # g.unique_id /\ f.last # g.last

CvPairs == {<<f.unique_id, f.cutoff>> : f \in cvCalls}

\* C16: after a transform has returned, the decision table has exactly one
\* row for every (entity, cutoff) pair of the cross-validation output and
\* no row of another pair; the error table has exactly one row for every
\* such pair and none other, and each of its rows holds exactly one error
\* value for every candidate model.
C16_OneRowPerEntityAndCutoff ==
    TransformReturned =>
        /\ \A w \in CvPairs :
              /\ Cardinality({d \in cvOut.value.rows :
                                 /\ d.unique_id = w[1]
                                 /\ d.start_date = w[2] + cv.forecast_horizon}) = 1
              /\ Cardinality({r \in cv.error_df.rows :
                                 r.unique_id = w[1] /\ r.cutoff = w[2]}) = 1
        /\ \A d \in cvOut.value.rows :
              <<d.unique_id, d.start_date - cv.forecast_horizon>> \in CvPairs
        /\ \A r \in cv.error_df.rows :
              /\ <<r.unique_id, r.cutoff>> \in CvPairs
              /\ Len(r.metrics) = Cardinality(Range(cv.models))
              /\ \A m \in Range(cv.models) :
                    Cardinality({n \in DOMAIN r.metrics :
                                    r.metrics[n].label = ColumnName(cv.metric, m)}) = 1

\* C16 witness: a transform over two entities, two folds and two candidate
\* models has returned four decision rows.
C16_Witness ==
    /\ TransformReturned
    /\ Len(cv.models) = 2
    /\ cv.cv_folds = 2
    /\ Cardinality(CvPairs) = 4
    /\ Cardinality(cvOut.value.rows) = 4

\* C17 as claimed: in the end-to-end scenario the decision table that
\* transform returns has exactly one row per entity, with best_model
\* "HistoricAverage".
C17_ScenarioOneRowPerEntity ==
    TransformReturned =>
        \A e \in DOMAIN ScenarioHistory :
            /\ Cardinality({d \in cvOut.value.rows : d.unique_id = e}) = 1
            /\ \A d \in cvOut.value.rows : d.best_model = MODEL_HISTORIC_AVERAGE

\* C17 amended: in the end-to-end scenario the decision table that
\* transform returns has exactly one row per entity and fold, that is two
\* rows with different start dates for each of the two entities, and every
\* row has best_model "HistoricAverage".
C17_ScenarioOneRowPerEntityAndFold ==
    TransformReturned =>
        /\ \A e \in DOMAIN ScenarioHistory :
              /\ Cardinality({d \in cvOut.value.rows : d.unique_id = e}) = 2
              /\ Cardinality({d.start_date : d \in {q \in cvOut.value.rows : q.unique_id = e}})
                    = ScenarioValidator.cv_folds
        /\ \A d \in cvOut.value.rows :
              d.unique_id \in DOMAIN ScenarioHistory /\ d.best_model = MODEL_HISTORIC_AVERAGE

\* C17 witness: the scenario's transform has returned a table with rows of
\* both entities.
C17_Witness ==
    /\ TransformReturned
    /\ cv = [ScenarioValidator EXCEPT !.sf = cv.sf, !.metric_callable = MAE,
                                      !.is_fitted = TRUE, !.error_df = cv.error_df]
    /\ \A e \in DOMAIN ScenarioHistory : \E d \in cvOut.value.rows : d.unique_id = e

\* C13 as claimed, for the backtest of a transform: no model instance does
\* the fit/predict cycle of more than one (entity, cutoff) window.
C13_InstanceUsedOnce ==
    \A f, g \in cvCalls :
        f.instance = g.instance => (f.unique_id = g.unique_id /\ f.cutoff = g.cutoff)

PredictReturned == fcOut.op = "predict" /\ fcOut.raised = "none"

\* C18: after a predict has returned, every retained decision has had its
\* _apply_forecast call, and for every one whose entity has history the
\* forecast table holds exactly forecast_horizon rows of that entity, their
\* timestamps being the forecast_horizon consecutive periods that follow
\* the entity's last history timestamp: strictly increasing, all after the
\* history, the first one period after its end.
C18_ForecastRowsFollowHistory ==
    PredictReturned =>
        /\ \A r \in fc.cv_results.rows :
              \E c \in fcCalls : c.unique_id = r.unique_id /\ c.model = r.best_model
        /\ \A c \in fcCalls :
              ~c.empty =>
                  LET rows == {f \in fcOut.value.rows : f.unique_id = c.unique_id}
                  IN /\ Cardinality(rows) = fc.forecast_horizon
                     /\ {f.ds : f \in rows} =
                            (c.last + 1)..(c.last + fc.forecast_horizon)

\* C18 witness: a predict with a horizon of two periods has returned the
\* forecasts of two entities whose histories end at different timestamps.
C18_Witness ==
    /\ PredictReturned
    /\ fc.forecast_horizon = 2
    /\ \E c, d \in fcCalls :
          /\ ~c.empty /\ ~d.empty
          /\ c.unique_id # d.unique_id
          /\ c.last # d.last
    /\ Cardinality(fcOut.value.rows) = 4

\* C19: a predict on a fitted Forecaster that retains at least one decision
\* returns; a retained decision whose entity has no row in the history
\* given to predict adds no row to the forecast table and has no model
\* instance made for it, while every other retained decision gets a new
\* model instance and its forecast_horizon rows.
C19_MissingEntityContributesNothing ==
    [][(fcOut'.op = "predict" /\ fc.is_fitted /\ fc.cv_results.rows # {}) =>
          /\ fcOut'.raised = "none"
          /\ \A r \in fc.cv_results.rows :
                \E c \in fcCalls' : c.unique_id = r.unique_id
          /\ \A c \in fcCalls' :
                LET rows == {f \in fcOut'.value.rows : f.unique_id = c.unique_id}
                IN IF c.empty
                   THEN rows = {} /\ c.instance = NoneRef
                   ELSE /\ Cardinality(rows) = fc.forecast_horizon
                        /\ c.instance \notin DOMAIN heap
                        /\ c.instance # NoneRef]_vars

\* C19 witness: a predict has returned the forecast of one retained entity
\* while another retained entity had no row in the history.
C19_Witness ==
    /\ PredictReturned
    /\ \E c, d \in fcCalls :
          /\ c.empty
          /\ ~d.empty
          /\ \E f \in fcOut.value.rows : f.unique_id = d.unique_id
          /\ ~\E f \in fcOut.value.rows : f.unique_id = c.unique_id

\* C21: no step of the Forecaster (construction, fit, predict) changes the
\* decision table the caller gave to the constructor; what fit filters is
\* the table the Forecaster itself holds.
C21_CallerTableUntouched ==
    [][cvTable' = cvTable]_vars

\* C21 witness: a predict has returned on a Forecaster whose fit dropped
\* rows of the table it was built on.
C21_Witness ==
    /\ PredictReturned
    /\ fc.is_fitted
    /\ fc.cv_results.rows # cvTable.rows
    /\ fc.cv_results.rows # {}

\* C24: after every fit step, the first or a later one, the retained rows
\* are the rows of the table given to the constructor whose decision_start
\* is the greatest one <= max(history.timestamp) of that fit, as a new
\* Forecaster fitted once on that history retains them.
C24_FitDependsOnConstructorTableOnly ==
    [][fcOut'.op = "fit" =>
          fc'.cv_results.rows
              = QueryStartIsMax(QueryStartLE(cvTable.rows, fcLog'.fitMax))]_vars

\* C25: a predict step on a fitted Forecaster that retains no decision row
\* does not fail and returns a forecast table without rows.
C25_PredictOfNoDecisionIsEmpty ==
    [][(fcOut'.op = "predict" /\ fc.is_fitted /\ fc.cv_results.rows = {}) =>
          (fcOut'.raised = "none" /\ fcOut'.value = Table({}))]_vars

----------------------------------------------------------------------------
(* Properties of the error table *)

\* C22: a caller's modification of the table it keeps, be it a table read
\* through error_df or the decision table transform returned, leaves the
\* CrossValidator and its error table as they were; a read through
\* error_df returns the rows the error table holds; and after a transform
\* that returned, the error table holds the records of that run alone, one
\* row per (entity, cutoff) pair of its backtest.
C22_ErrorTableImmutableForCallers ==
    [][/\ caller'.op = "modify" => cv' = cv
       /\ (cvOut'.op = "error_df" /\ cvOut'.raised = "none") =>
              (cvOut'.value = cv.error_df /\ cv' = cv)
       /\ (cvOut'.op = "transform" /\ cvOut'.raised = "none" /\ caller'.op = "take") =>
              {<<r.unique_id, r.cutoff>> : r \in cv'.error_df.rows}
                  = {<<f.unique_id, f.cutoff>> : f \in cvCalls'}]_vars

\* C22 witness: the caller has emptied the table it read through error_df
\* and the error table still has its rows.
C22_Witness ==
    /\ caller.op = "modify"
    /\ caller.holds = "error_df"
    /\ caller.table.rows = {}
    /\ cv.error_df.rows # {}

----------------------------------------------------------------------------
(* Properties of the metrics *)

\* C23: every metric of METRIC_BANK applied to a non-empty sequence and the
\* same sequence again gives 0, whether or not the sequence holds a 0.
C23_MetricOfEqualSequencesIsZero ==
    (mt.exists /\ mt.applied /\ mt.y_true = mt.y_pred) => IsZero(mt.result)

\* C23 witness: MAPE has been applied to a sequence that holds a 0, and to
\* that sequence again.
C23_Witness ==
    /\ mt.exists
    /\ mt.applied
    /\ mt.metric = MAPE
    /\ mt.y_true = mt.y_pred
    /\ \E i \in DOMAIN mt.y_true : mt.y_true[i] = 0
    /\ \E i \in DOMAIN mt.y_true : mt.y_true[i] # 0

----------------------------------------------------------------------------
(* Properties of the pipeline *)

\* C28: when the Forecaster built on the table of transform(X) has been fit
\* on the same X, it retains at least one decision; the decision_start of
\* every entity's latest window, its last cutoff + forecast_horizon, is
\* <= max(X.timestamp); and every entity whose history ends at
\* max(X.timestamp) has exactly one retained decision.
C28_PipelineRetainsADecision ==
    fc.is_fitted =>
        LET retained == fc.cv_results.rows
            LastCutoff(e) == SetMax({f.cutoff : f \in {g \in cvCalls : g.unique_id = e}})
        IN /\ retained # {}
           /\ \A f \in cvCalls :
                 LastCutoff(f.unique_id) + cv.forecast_horizon <= fcLog.fitMax
           /\ \A f \in cvCalls :
                 f.last = fcLog.fitMax =>
                     Cardinality({r \in retained : r.unique_id = f.unique_id}) = 1

\* C28 witness: the Forecaster has been fit on a history of two entities,
\* one ending a period before the other, that was backtested in two windows,
\* and retains the decision of the entity that ends last only.
C28_Witness ==
    /\ fc.is_fitted
    /\ fcOut.op = "fit"
    /\ cv.cv_folds = 2
    /\ \E f \in cvCalls : f.last < fcLog.fitMax
    /\ \E f \in cvCalls : f.last = fcLog.fitMax
    /\ Cardinality(cvTable.rows) = 4
    /\ Cardinality(fc.cv_results.rows) = 1

----------------------------------------------------------------------------
(* Properties of the imputers *)

\* The distance of sensor c from sensor s in the distance matrix.
DistanceOf(s, c) ==
    LET Pos(x) == CHOOSE n \in DOMAIN imp.self.sensor_ids : imp.self.sensor_ids[n] = x
    IN imp.self.distance_matrix[Pos(s)][Pos(c)]

\* The sensors that have a row with a value at timestamp t.
Donors(t) ==
    {c \in ImputerSensors : <<t, c>> \in DOMAIN imp.X /\ imp.X[<<t, c>>] # NaN}

\* C30: after a transform of a fitted NearestSensorImputer, every row whose
\* value was missing holds the value of a sensor that has a value at the
\* row's timestamp and is no farther from the row's sensor than any other
\* sensor with a value at that timestamp, sensors without a row there being
\* passed over; it is still missing when no sensor has a value at that
\* timestamp; and at most len(sensor_ids) lookups were made for it.
C30_NearestSensorFills ==
    (imp.exists /\ imp.out.op = "transform" /\ imp.out.raised = "none") =>
        /\ DOMAIN imp.out.value = DOMAIN imp.X
        /\ \A key \in DOMAIN imp.X :
              imp.X[key] = NaN =>
                  /\ Donors(key[1]) = {} => imp.out.value[key] = NaN
                  /\ Donors(key[1]) # {} =>
                         \E c \in Donors(key[1]) :
                             /\ imp.out.value[key] = imp.X[<<key[1], c>>]
                             /\ \A d \in Donors(key[1]) :
                                    DistanceOf(key[2], c) <= DistanceOf(key[2], d)
                  /\ imp.out.lookups[key] <= Len(imp.self.sensor_ids)

\* C30 witness: a transform has filled a row with the value of the farther
\* of the two other sensors, the nearer one having no row at that timestamp,
\* and has left a row of the other timestamp missing after len(sensor_ids)
\* lookups.
C30_Witness ==
    /\ imp.exists
    /\ imp.out.op = "transform"
    /\ imp.out.raised = "none"
    /\ \E key \in DOMAIN imp.X, c, d \in ImputerSensors :
          /\ imp.X[key] = NaN
          /\ DistanceOf(key[2], d) < DistanceOf(key[2], c)
          /\ d # key[2]
          /\ <<key[1], d>> \notin DOMAIN imp.X
          /\ imp.out.value[key] = Measured(key[1], c)
    /\ \E key \in DOMAIN imp.X :
          /\ imp.X[key] = NaN
          /\ imp.out.value[key] = NaN
          /\ imp.out.lookups[key] = Len(imp.self.sensor_ids)

\* C29: the frame a SupportedLastImputer.transform returns has exactly one
\* row for every (timestamp, unique_id) row it was given and no other row,
\* whatever the entity's values are, all missing or a single one valid
\* included.
C29_OneRowPerInputRow ==
    (imp.exists /\ imp.out.op = "transform" /\ imp.out.raised = "none") =>
        /\ Len(imp.out.value) = Cardinality(DOMAIN imp.X)
        /\ \A key \in DOMAIN imp.X :
              Cardinality({i \in DOMAIN imp.out.value :
                              /\ imp.out.value[i].timestamp = key[1]
                              /\ imp.out.value[i].unique_id = key[2]}) = 1

----------------------------------------------------------------------------
(* Properties of the parallel backtest *)

\* C20: once the input has been transformed by a validator of parallelism
\* degree 1 and by one of degree N > 1, in whatever order the workers
\* finished, both have raised or both have returned, and the two decision
\* tables hold the same set of rows.
C20_ParallelismKeepsDecisions ==
    (par.sequential.op = "transform" /\ par.parallel.op = "transform") =>
        /\ par.parallel.raised = par.sequential.raised
        /\ par.parallel.value = par.sequential.value

\* C20 witness: both runs have returned decisions for two entities whose
\* best models differ, the second worker's frame having come first in the
\* parallel run.
C20_Witness ==
    /\ par.sequential.op = "transform"
    /\ par.parallel.op = "transform"
    /\ par.parallel.raised = "none"
    /\ Len(par.order) >= 2
    /\ par.order[1] = 2
    /\ \E d, q \in par.parallel.value.rows :
          d.unique_id # q.unique_id /\ d.best_model # q.best_model

----------------------------------------------------------------------------
(* Properties of the ModelBank *)

GetReturned == mbOut.op = "get" /\ mbOut.raised = "none"

\* C11: a get call raises the unknown-model error (ValueError) when the
\* identifier is no key of the registry and returns an instance of the
\* identifier's model when it is a key; the registry holds the same keys in
\* every state, whatever get calls were made.
C11_GetRaisesOnlyForUnknown ==
    /\ DOMAIN bankModels = Range(ModelBankKeys)
    /\ mbOut.op = "get" =>
          IF mbOut.model_name \in DOMAIN bankModels
          THEN /\ mbOut.raised = "none"
               /\ mbOut.ref \in DOMAIN heap
               /\ heap[mbOut.ref].cls = mbOut.model_name
          ELSE /\ mbOut.raised = "ValueError"
               /\ mbOut.ref = NoneRef

\* C11 witness: a get call for an unknown identifier has raised after an
\* earlier get call returned an instance.
C11_Witness ==
    /\ mbOut.op = "get"
    /\ mbOut.raised = "ValueError"
    /\ mbOut.model_name = UnknownModel
    /\ Len(refs) >= 1

\* The objects the registry's dict holds.
StoredInstances == {bankModels[name] : name \in DOMAIN bankModels}

\* C12: every instance get returns is an object other than the registry's
\* stored instances and other than every instance returned by another call;
\* a fit of one returned instance changes the state of no other object, so
\* the stored instances stay as constructed, and two instances of the same
\* identifier fit on the same data give the same predictions.
C12_InstancesIndependent ==
    /\ [](/\ \A i \in DOMAIN refs : refs[i] \in (DOMAIN heap) \ StoredInstances
          /\ \A i, j \in DOMAIN refs : i # j => refs[i] # refs[j]
          /\ \A name \in DOMAIN bankModels : heap[bankModels[name]] = NewModel(name)
          /\ \A i, j \in DOMAIN refs :
                (/\ heap[refs[i]].cls = heap[refs[j]].cls
                 /\ heap[refs[i]].fitted = heap[refs[j]].fitted
                 /\ heap[refs[i]].fitted # None)
                    => Predict(heap[refs[i]]) = Predict(heap[refs[j]]))
    /\ [][\A o \in DOMAIN heap :
            \/ mbOut'.op = "fit" /\ mbOut'.ref = o
            \/ o \in DOMAIN heap' /\ heap'[o] = heap[o]]_vars

\* C12 witness: three instances of one identifier have been returned; two
\* of them were fit on the same data, the last fit being the second one's,
\* and the third is still as the registry's stored instance.
C12_Witness ==
    /\ mbOut.op = "fit"
    /\ \E i, j, k \in DOMAIN refs :
          /\ i # j
          /\ mbOut.ref = refs[j]
          /\ heap[refs[i]].cls = heap[refs[j]].cls
          /\ heap[refs[k]].cls = heap[refs[j]].cls
          /\ heap[refs[i]].fitted = "y1"
          /\ heap[refs[j]].fitted = "y1"
          /\ heap[refs[k]] = heap[bankModels[heap[refs[k]].cls]]

====
